---- MODULE Spec2Model ----
(***************************************************************************)
(* Model of TDAConnector (src/src/index.js): the OAuth2 token lifecycle    *)
(* (getAccessToken, refreshAccessToken, setCredentials) and the request    *)
(* helper doFetch with its lazy credential bootstrap and its               *)
(* refresh-and-retry on an authentication error.                           *)
(*                                                                         *)
(* A call is a stack of activations.  Each activation is one doFetch       *)
(* together with the method that started it (a domain method,              *)
(* getAccessToken or refreshAccessToken).  A step of the model runs the    *)
(* code from one external event (a call by the user, the answer of the     *)
(* credential initializer, the answer of an HTTP request) to the next      *)
(* suspension on an external event.                                        *)
(***************************************************************************)
EXTENDS Integers, Sequences, FiniteSets, TLC

\* ---- bounds --------------------------------------------------------------
MaxOps == 2
MaxDepth == 3
\* initCount counts the initializer's invocations up to InitCap: InitCap stands for "InitCap or more"
InitCap == 2

\* ---- values --------------------------------------------------------------
Tokens == {"t1", "t2"}
Null == "null"
Absent == "absent"
Empty == ""
NoHeader == "none"
FieldVals == {Absent, Empty} \cup Tokens
Tasks == {1, 2}
\* a caller that awaits each call before it makes the next one
Sequential == {1}

Truthy(v) == v \in Tokens

NullBody == [kind |-> "null", access_token |-> Absent, refresh_token |-> Absent, id |-> "null"]
Undefined == [kind |-> "undefined", access_token |-> Absent, refresh_token |-> Absent, id |-> "undefined"]
ObjectBody(a, r, i) == [kind |-> "object", access_token |-> a, refresh_token |-> r, id |-> i]

DomainBodies == {ObjectBody(Absent, Absent, i) : i \in {"d1", "d2"}} \cup {NullBody}
\* the credential objects tried: each field absent, empty or a token, the two
\* fields varied one at a time and together
FieldPairs == {<<a, r>> \in FieldVals \X FieldVals : a = Absent \/ r = Absent \/ a = r}
TokenBodies == {ObjectBody(p[1], p[2], "k") : p \in FieldPairs} \cup {NullBody}
CredentialObjects == {ObjectBody(p[1], p[2], "c") : p \in FieldPairs}

Statuses == {200, 302, 400, 401, 403, 500}
NetworkFailure == [kind |-> "neterr", status |-> 0, json |-> FALSE, body |-> NullBody]
HttpResponse(s, j, b) == [kind |-> "http", status |-> s, json |-> j, body |-> b]
\* what the ghost log keeps of a response to a domain request
Answer(response) == [kind |-> response.kind, status |-> response.status, json |-> response.json, id |-> response.body.id]
NoResponse == [kind |-> "none", status |-> 0, json |-> FALSE, body |-> NullBody]

ListenerBehaviours == {"returns", "throws"}

VARIABLES access_token, refresh_token, credentialInitializer, calls, hist

vars == <<access_token, refresh_token, credentialInitializer, calls, hist>>

\* ---- records -------------------------------------------------------------
Returned(v) == [thrown |-> FALSE, err |-> "none", result |-> v]
Thrown(e) == [thrown |-> TRUE, err |-> e, result |-> Undefined]

NoOp == [op |-> "none", resp |-> NoResponse, threw |-> FALSE, err |-> "none", emits |-> 0, payload |-> Undefined, listener |-> "none", ret |-> Undefined, rejected |-> FALSE, access_token |-> Null, refresh_token |-> Null]

\* the tokens held when the call's own refresh was started
NoHeld == [access_token |-> Null, refresh_token |-> Null]

\* the refresh a domain request awaited at line 284, as it completed in the step just taken
\* the body of the last token response that refreshAccessToken handed to
\* setCredentials, if no other writer of the tokens has run since; observed
\* when calls of several tasks overlap
NoToken == [set |-> FALSE, task |-> 0, access_token |-> Absent, refresh_token |-> Absent]

NoRefresh == [done |-> FALSE, task |-> 0, ok |-> FALSE, issued |-> Absent, held |-> NoHeld]

IdleCall == [status |-> "idle", op |-> "none", stack |-> <<>>, value |-> Undefined, error |-> "none", nDispatch |-> 0, answers |-> <<>>, nRefresh |-> 0, nOwnRefresh |-> 0, refreshAtRetry |-> -1, held |-> NoHeld]

NoSet == [called |-> FALSE, creds |-> NullBody, access_token |-> Null, refresh_token |-> Null]

NoInit == [op |-> 0, http |-> FALSE, result |-> "none"]

Frame(op, headers, rt) == [op |-> op, headers |-> headers, retries |-> 0, pc |-> "start", Authorization |-> NoHeader, rt |-> rt, status |-> 0]

\* the state an action starts from; lastOp describes only the step just taken
World == [access_token |-> access_token, refresh_token |-> refresh_token, calls |-> calls, hist |-> [hist EXCEPT !.lastOp = NoOp, !.lastSet = NoSet, !.lastRefresh = NoRefresh, !.afterUsedUp = FALSE]]

Top(w, t) == w.calls[t].stack[Len(w.calls[t].stack)]
Depth(w, t) == Len(w.calls[t].stack)
SetTop(w, t, f) == [w EXCEPT !.calls[t].stack[Len(w.calls[t].stack)] = f]
Push(w, t, f) == [w EXCEPT !.calls[t].stack = Append(@, f)]
Pop(w, t) == [w EXCEPT !.calls[t].stack = SubSeq(@, 1, Len(@) - 1)]

\* ---- TDAConnector.constructor ---------------------------------------------
Init ==
  /\ access_token = Null
  /\ refresh_token = Null
  /\ credentialInitializer \in BOOLEAN
  /\ calls = [t \in Tasks |-> IdleCall]
  /\ hist = [nOps |-> 0, onlyDomain |-> TRUE, initCount |-> 0, firstInit |-> NoInit, anyHttp |-> FALSE, afterUsedUp |-> FALSE, lastOp |-> NoOp, lastSet |-> NoSet, lastRefresh |-> NoRefresh, lastToken |-> NoToken]

\* ---- TDAConnector.setCredentials ------------------------------------------
\* variant: both fields are assigned whatever the argument carries
setCredentials_assignAll(w, creds) ==
  IF creds.kind # "object" THEN w
  ELSE [w EXCEPT !.access_token = IF Truthy(creds.access_token) THEN creds.access_token ELSE Null,
                 !.refresh_token = IF Truthy(creds.refresh_token) THEN creds.refresh_token ELSE Null]

\* variant: first writer wins, a held token is not overwritten
setCredentials_keepFirst(w, creds) ==
  IF creds.kind # "object" THEN w
  ELSE [w EXCEPT !.access_token = IF Truthy(creds.access_token) /\ ~Truthy(@) THEN creds.access_token ELSE @,
                 !.refresh_token = IF Truthy(creds.refresh_token) /\ ~Truthy(@) THEN creds.refresh_token ELSE @]

setCredentials(w, creds) ==
  IF creds.kind # "object" THEN w
  ELSE [w EXCEPT !.access_token = IF Truthy(creds.access_token) THEN creds.access_token ELSE @,
                 !.refresh_token = IF Truthy(creds.refresh_token) THEN creds.refresh_token ELSE @]

\* ---- TDAConnector.handleNotOk ---------------------------------------------
\* variant: every 4xx status raises the authentication error
handleNotOk_raiseClient(response) ==
  IF ~response.json THEN Thrown("ParseError")
  ELSE IF response.status >= 300 /\ response.status < 400 THEN Returned(response.body)
  ELSE IF response.status >= 400 /\ response.status < 500
       THEN IF response.body.kind = "null" THEN Thrown("TypeError") ELSE Thrown("ApiAuthError")
  ELSE IF response.status >= 500 THEN Returned(response.body)
  ELSE Thrown("ReferenceError")

handleNotOk(response) ==
  IF ~response.json THEN Thrown("ParseError")
  ELSE IF response.status >= 300 /\ response.status < 400 THEN Returned(response.body)
  ELSE IF response.status >= 400 /\ response.status < 500
       THEN IF response.status = 401 \/ response.status = 403
            THEN IF response.body.kind = "null" THEN Thrown("TypeError") ELSE Thrown("ApiAuthError")
            ELSE Returned(response.body)
  ELSE IF response.status >= 500 THEN Returned(response.body)
  ELSE Thrown("ReferenceError")

\* the response makes handleNotOk throw an ApiAuthError
AuthError(response) ==
  /\ response.kind = "http"
  /\ ~(response.status >= 200 /\ response.status < 300)
  /\ handleNotOk(response).err = "ApiAuthError"

\* ---- doFetch, lines 222-267: options, headers, dispatch --------------------
\* variant: the Authorization header is added to explicit headers as well
dispatch_mergeHeaders(w, t) ==
  LET f == Top(w, t)
      auth == IF Truthy(w.access_token) THEN w.access_token ELSE NoHeader
      w1 == SetTop(w, t, [f EXCEPT !.pc = "awaitFetch", !.Authorization = auth, !.status = 0])
      c == w1.calls[t]
      first == Depth(w, t) = 1
  IN [w1 EXCEPT !.calls[t].nDispatch = IF first THEN @ + 1 ELSE @,
                !.calls[t].refreshAtRetry = IF first /\ c.nDispatch = 1 THEN c.nRefresh ELSE @,
                !.hist.anyHttp = TRUE]

dispatch(w, t) ==
  LET f == Top(w, t)
      auth == IF f.headers THEN NoHeader
              ELSE IF Truthy(w.access_token) THEN w.access_token ELSE NoHeader
      w1 == SetTop(w, t, [f EXCEPT !.pc = "awaitFetch", !.Authorization = auth, !.status = 0])
      c == w1.calls[t]
      first == Depth(w, t) = 1
  IN [w1 EXCEPT !.calls[t].nDispatch = IF first THEN @ + 1 ELSE @,
                !.calls[t].refreshAtRetry = IF first /\ c.nDispatch = 1 THEN c.nRefresh ELSE @,
                !.hist.anyHttp = TRUE]

\* ---- doFetch, lines 216-221 then 222-267 -----------------------------------
\* variant: the initializer runs on every entry, whether or not a token is held
doFetch_alwaysInit(w, t) ==
  IF credentialInitializer
  THEN LET w1 == SetTop(w, t, [Top(w, t) EXCEPT !.pc = "awaitInit"])
       IN [w1 EXCEPT !.hist.initCount = IF @ < InitCap THEN @ + 1 ELSE @,
                     !.hist.firstInit = IF w.hist.initCount = 0
                                        THEN [op |-> w.hist.nOps, http |-> w.hist.anyHttp, result |-> "pending"]
                                        ELSE @]
  ELSE dispatch(w, t)

\* variant: single-flight bootstrap, the initializer is not invoked while
\* another call's invocation of it is pending
doFetch_singleFlight(w, t) ==
  IF /\ ~Truthy(w.access_token) /\ credentialInitializer
     /\ ~\E u \in Tasks \ {t} : w.calls[u].status = "running" /\ Top(w, u).pc = "awaitInit"
  THEN LET w1 == SetTop(w, t, [Top(w, t) EXCEPT !.pc = "awaitInit"])
       IN [w1 EXCEPT !.hist.initCount = IF @ < InitCap THEN @ + 1 ELSE @,
                     !.hist.firstInit = IF w.hist.initCount = 0
                                        THEN [op |-> w.hist.nOps, http |-> w.hist.anyHttp, result |-> "pending"]
                                        ELSE @]
  ELSE dispatch(w, t)

doFetch(w, t) ==
  IF ~Truthy(w.access_token) /\ credentialInitializer
  THEN LET w1 == SetTop(w, t, [Top(w, t) EXCEPT !.pc = "awaitInit"])
       IN [w1 EXCEPT !.hist.initCount = IF @ < InitCap THEN @ + 1 ELSE @,
                     !.hist.firstInit = IF w.hist.initCount = 0
                                        THEN [op |-> w.hist.nOps, http |-> w.hist.anyHttp, result |-> "pending"]
                                        ELSE @]
  ELSE dispatch(w, t)

\* ---- a call settles --------------------------------------------------------
Settle(w, t, o) ==
  [w EXCEPT !.calls[t].status = IF o.thrown THEN "rejected" ELSE "resolved",
            !.calls[t].value = o.result,
            !.calls[t].error = o.err,
            !.calls[t].stack = <<>>,
            !.calls[t].held = NoHeld]

\* ---- getAccessToken lines 152-159, refreshAccessToken lines 194-201 --------
\* variant: the credentials are stored but no 'token' event is emitted
tokenResult_noEmit(w, o, lb) ==
  IF o.thrown THEN [w |-> w, out |-> Returned(Undefined), emits |-> 0, payload |-> Undefined]
  ELSE [w |-> setCredentials(w, o.result), out |-> Returned(o.result), emits |-> 0, payload |-> Undefined]

\* variant: no catch, the error of the token request propagates
tokenResult_rethrow(w, o, lb) ==
  IF o.thrown THEN [w |-> w, out |-> Thrown(o.err), emits |-> 0, payload |-> Undefined]
  ELSE IF lb = "throws" THEN [w |-> w, out |-> Thrown("ListenerError"), emits |-> 1, payload |-> o.result]
  ELSE [w |-> setCredentials(w, o.result), out |-> Returned(o.result), emits |-> 1, payload |-> o.result]

\* o is the outcome of the awaited doFetch, lb the behaviour of the 'token'
\* subscribers; the result is the outcome of the method and the new world.
tokenResult(w, o, lb) ==
  IF o.thrown THEN [w |-> w, out |-> Returned(Undefined), emits |-> 0, payload |-> Undefined]
  ELSE IF lb = "throws" THEN [w |-> w, out |-> Returned(Undefined), emits |-> 1, payload |-> o.result]
  ELSE [w |-> setCredentials(w, o.result), out |-> Returned(o.result), emits |-> 1, payload |-> o.result]

\* another task has made a call
Overlaps(w, t) == \E u \in Tasks \ {t} : w.calls[u].status # "idle"

\* ---- the doFetch on top of the stack settles with outcome o ---------------
\* A domain method hands the outcome to its caller.  getAccessToken and
\* refreshAccessToken run tokenResult (lastOp observes the one the user
\* called); a refresh awaited at line 284 then
\* resumes the doFetch below it: options.retries++ and the request is
\* re-invoked (lines 285-288).  An error out of line 284 would leave that
\* doFetch from inside its catch block.
RECURSIVE complete(_, _, _, _, _)
complete(w, t, o, lb, response) ==
  LET f == Top(w, t)
  IN IF f.op = "domain" THEN Settle(w, t, o)
     ELSE LET r == tokenResult(w, o, lb)
              w1 == IF Depth(w, t) > 1 THEN r.w ELSE [r.w EXCEPT !.hist.lastOp = [op |-> f.op, resp |-> response, threw |-> o.thrown, err |-> o.err, emits |-> r.emits, payload |-> r.payload, listener |-> IF r.emits > 0 THEN lb ELSE "none", ret |-> r.out.result, rejected |-> r.out.thrown, access_token |-> r.w.access_token, refresh_token |-> r.w.refresh_token]]
              w1t == IF Overlaps(w, t) /\ f.op = "refresh" /\ ~o.thrown /\ r.emits > 0 /\ lb = "returns" /\ o.result.kind = "object"
                     THEN [w1 EXCEPT !.hist.lastToken = [set |-> TRUE, task |-> t, access_token |-> o.result.access_token, refresh_token |-> o.result.refresh_token]]
                     ELSE w1
              ok == ~o.thrown /\ response.kind = "http" /\ response.status >= 200 /\ response.status < 300
              w1r == IF Depth(w, t) = 2 /\ f.op = "refresh" /\ w.calls[t].stack[1].op = "domain"
                     THEN [w1t EXCEPT !.hist.lastRefresh = [done |-> TRUE, task |-> t, ok |-> ok, issued |-> IF ok /\ Truthy(o.result.access_token) THEN o.result.access_token ELSE Absent, held |-> w.calls[t].held],
                                      !.calls[t].held = NoHeld]
                     ELSE w1t
          IN IF Depth(w, t) = 1 THEN Settle(w1t, t, r.out)
             ELSE IF r.out.thrown THEN complete(Pop(w1t, t), t, r.out, lb, NoResponse)
             ELSE LET w2 == Pop(w1r, t)
                  IN doFetch(SetTop(w2, t, [Top(w2, t) EXCEPT !.retries = @ + 1]), t)

\* ---- TDAConnector.refreshAccessToken lines 176-192 ------------------------
refreshAccessToken(w, t, rt) ==
  doFetch(Push(w, t, Frame("refresh", TRUE, rt)), t)

\* ---- TDAConnector.getAccessToken lines 133-150 -----------------------------
getAccessToken(w, t) ==
  doFetch(Push(w, t, Frame("exchange", TRUE, Null)), t)

\* ---- doFetch line 281: options.retries < 1 -----------------------------------
\* variant: two retries are allowed
mayRetry_twice(f) == f.retries < 2

mayRetry(f) == f.retries < 1

\* ---- doFetch line 280: err instanceof ApiAuthError --------------------------
\* variant: every error is treated as an authentication error
isApiAuthError_any(err) == TRUE

isApiAuthError(err) == err = "ApiAuthError"

\* ---- doFetch lines 264-297: the response arrives --------------------------
onResponse(w, t, response, lb) ==
  LET f == Top(w, t)
      w1 == IF f.op = "domain" THEN [w EXCEPT !.calls[t].answers = Append(@, Answer(response))] ELSE w
      o == IF response.kind = "neterr" THEN Thrown("FetchError")
           ELSE IF response.status >= 200 /\ response.status < 300
                THEN IF response.json THEN Returned(response.body) ELSE Thrown("ParseError")
           ELSE handleNotOk(response)
  IN IF o.thrown /\ isApiAuthError(o.err) /\ mayRetry(f)
     THEN LET w2 == SetTop(w1, t, [f EXCEPT !.pc = "awaitRefresh", !.status = 0])
          IN refreshAccessToken([w2 EXCEPT !.calls[t].nRefresh = @ + 1,
                                           !.calls[t].nOwnRefresh = IF Depth(w, t) = 1 THEN @ + 1 ELSE @,
                                           !.calls[t].held = IF Depth(w, t) = 1 /\ f.op = "domain" THEN [access_token |-> w.access_token, refresh_token |-> w.refresh_token] ELSE @], t, w.refresh_token)
     ELSE complete(w1, t, o, lb, response)

\* ---- doFetch lines 218-221: the initializer has answered ------------------
\* variant: both fields are assigned from the initializer's result, missing ones as null
onCredentials_assignAll(w, t, creds) ==
  LET w0 == IF w.hist.firstInit.result = "pending"
            THEN [w EXCEPT !.hist.firstInit.result = IF creds.kind # "object" THEN "notobject"
                                                     ELSE IF Truthy(creds.access_token) THEN "token" ELSE "notoken"]
            ELSE w
  IN IF creds.kind # "object" THEN complete(w0, t, Thrown("TypeError"), "none", NoResponse)
     ELSE dispatch([w0 EXCEPT !.access_token = IF Truthy(creds.access_token) THEN creds.access_token ELSE Null,
                              !.refresh_token = IF Truthy(creds.refresh_token) THEN creds.refresh_token ELSE Null], t)

onCredentials(w, t, creds) ==
  LET w0 == IF w.hist.firstInit.result = "pending"
            THEN [w EXCEPT !.hist.firstInit.result = IF creds.kind # "object" THEN "notobject"
                                                     ELSE IF Truthy(creds.access_token) THEN "token" ELSE "notoken"]
            ELSE w
  IN IF creds.kind # "object" THEN complete(w0, t, Thrown("TypeError"), "none", NoResponse)
     ELSE dispatch([w0 EXCEPT !.access_token = IF Truthy(creds.access_token) THEN creds.access_token ELSE @,
                              !.refresh_token = IF Truthy(creds.refresh_token) THEN creds.refresh_token ELSE @,
                              !.hist.lastToken = NoToken], t)

\* ---- actions ---------------------------------------------------------------
Set(w) ==
  /\ access_token' = w.access_token
  /\ refresh_token' = w.refresh_token
  /\ calls' = w.calls
  /\ hist' = w.hist
  /\ UNCHANGED credentialInitializer

CanStart(t) == calls[t].status # "running" /\ hist.nOps < MaxOps

\* the call was a domain request that rejected with the authentication error of
\* its retry; afterUsedUp marks the step that starts the next call after it
UsedUpRetry(c) == c.op = "domain" /\ c.status = "rejected" /\ c.error = "ApiAuthError" /\ c.nDispatch = 2

Begin(t, op, only) ==
  [World EXCEPT !.calls[t] = [IdleCall EXCEPT !.status = "running", !.op = op],
                !.hist.nOps = @ + 1,
                !.hist.onlyDomain = @ /\ only,
                !.hist.afterUsedUp = UsedUpRetry(calls[t])]

\* variant: the retry counter is kept on the connector and survives the call
DomainCall_sharedRetries(t) ==
  /\ CanStart(t)
  /\ LET w == Push(Begin(t, "domain", TRUE), t, Frame("domain", FALSE, Null))
     IN Set(doFetch(SetTop(w, t, [Top(w, t) EXCEPT !.retries = IF UsedUpRetry(calls[t]) THEN 1 ELSE 0]), t))

DomainCall(t) ==
  /\ CanStart(t)
  /\ Set(doFetch(Push(Begin(t, "domain", TRUE), t, Frame("domain", FALSE, Null)), t))

GetAccessTokenCall(t) ==
  /\ CanStart(t)
  /\ Set(getAccessToken(Begin(t, "exchange", FALSE), t))

RefreshAccessTokenCall(t) ==
  /\ CanStart(t)
  /\ \E rt \in Tokens : Set(refreshAccessToken(Begin(t, "refresh", FALSE), t, rt))

SetCredentialsCall ==
  /\ hist.nOps < MaxOps
  /\ \A t \in Tasks : calls[t].status # "running"
  /\ \E creds \in CredentialObjects \cup {NullBody} :
        Set(setCredentials([World EXCEPT !.calls = [t \in Tasks |-> IdleCall],
                                         !.hist.nOps = @ + 1,
                                         !.hist.onlyDomain = FALSE,
                                         !.hist.lastToken = NoToken,
                                         !.hist.lastSet = [called |-> TRUE, creds |-> creds, access_token |-> access_token, refresh_token |-> refresh_token]], creds))

InitializerAnswers(t) ==
  /\ calls[t].status = "running"
  /\ Top(World, t).pc = "awaitInit"
  /\ \E creds \in CredentialObjects \cup {NullBody} : Set(onCredentials(World, t, creds))

\* line 267: the fetch promise settles, with a status line or a network failure
FetchAnswers(t) ==
  /\ calls[t].status = "running"
  /\ Top(World, t).pc = "awaitFetch"
  /\ \/ Set(onResponse(World, t, NetworkFailure, "returns"))
     \/ \E s \in Statuses :
          /\ (Depth(World, t) = MaxDepth /\ mayRetry(Top(World, t))) => s \notin {401, 403}
          /\ Set(SetTop(World, t, [Top(World, t) EXCEPT !.pc = "awaitJson", !.status = s]))

\* lines 272 and 310: response.json() settles, with the parsed body or a parse failure
JsonAnswers(t) ==
  /\ calls[t].status = "running"
  /\ Top(World, t).pc = "awaitJson"
  /\ LET f == Top(World, t)
         bodies == IF f.op = "domain" THEN DomainBodies ELSE TokenBodies
     IN \/ Set(onResponse(World, t, HttpResponse(f.status, FALSE, NullBody), "returns"))
        \/ \E b \in bodies, lb \in (IF f.op = "domain" THEN {"returns"} ELSE ListenerBehaviours) : Set(onResponse(World, t, HttpResponse(f.status, TRUE, b), lb))

Next ==
  \/ \E t \in Sequential : DomainCall(t)
  \/ \E t \in Sequential : GetAccessTokenCall(t)
  \/ \E t \in Sequential : RefreshAccessTokenCall(t)
  \/ SetCredentialsCall
  \/ \E t \in Sequential : InitializerAnswers(t)
  \/ \E t \in Sequential : FetchAnswers(t)
  \/ \E t \in Sequential : JsonAnswers(t)

Spec == Init /\ [][Next]_vars

\* ---- concurrent callers ----------------------------------------------------
\* Domain calls of several tasks overlap: every await of doFetch (lines 218,
\* 267, 272/310, 284) is a point where another call may run.  The answers are
\* drawn from the cases that matter to the interleaving.
ConcCredentials == {ObjectBody("t1", "t1", "c"), ObjectBody(Absent, Absent, "c")}
ConcStatuses == {200, 401}
ConcTokenBodies == {ObjectBody("t1", "t1", "k"), ObjectBody("t2", Absent, "k")}
ConcDomainBodies == {ObjectBody(Absent, Absent, "d1")}

ConcInitializerAnswers(t) ==
  /\ calls[t].status = "running"
  /\ Top(World, t).pc = "awaitInit"
  /\ \E creds \in ConcCredentials : Set(onCredentials(World, t, creds))

ConcFetchAnswers(t) ==
  /\ calls[t].status = "running"
  /\ Top(World, t).pc = "awaitFetch"
  /\ \E s \in ConcStatuses :
       /\ (Depth(World, t) = MaxDepth /\ mayRetry(Top(World, t))) => s \notin {401, 403}
       /\ Set(SetTop(World, t, [Top(World, t) EXCEPT !.pc = "awaitJson", !.status = s]))

ConcJsonAnswers(t) ==
  /\ calls[t].status = "running"
  /\ Top(World, t).pc = "awaitJson"
  /\ LET f == Top(World, t)
     IN \E b \in (IF f.op = "domain" THEN ConcDomainBodies ELSE ConcTokenBodies) :
          Set(onResponse(World, t, HttpResponse(f.status, TRUE, b), "returns"))

NextConc ==
  \/ \E t \in Tasks : DomainCall(t)
  \/ \E t \in Tasks : ConcInitializerAnswers(t)
  \/ \E t \in Tasks : ConcFetchAnswers(t)
  \/ \E t \in Tasks : ConcJsonAnswers(t)

SpecConc == Init /\ [][NextConc]_vars

\* ---- unbounded nesting ------------------------------------------------------
\* The doFetch of a refresh request starts with options.retries = 0 (lines
\* 183-192, 225-227), so a 401/403 from the token endpoint starts a refresh
\* inside the refresh, to any depth.  Spec cuts the nesting at MaxDepth.  Here
\* the nesting is not cut: a run of equal refresh frames that all wait at line
\* 284 is kept as one frame, with the refreshes it stands for counted once, so
\* that a stack of any depth has a finite representation.
Foldable(w, t) ==
  LET st == w.calls[t].stack
      n == Len(st)
  IN /\ n >= 2
     /\ st[n].op = "refresh" /\ st[n - 1].op = "refresh"
     /\ st[n - 1] = [st[n] EXCEPT !.pc = "awaitRefresh", !.status = 0]
     /\ st[n].rt = w.refresh_token

Fold(w, t) ==
  LET st == w.calls[t].stack
      n == Len(st)
  IN IF w.calls[t].status = "running" /\ n > MaxDepth /\ st[n - 1] = st[n - 2]
     THEN [w EXCEPT !.calls[t].stack = Append(SubSeq(st, 1, n - 2), st[n]),
                    !.calls[t].nRefresh = @ - 1]
     ELSE w

LiveFetchAnswers(t) ==
  /\ calls[t].status = "running"
  /\ Top(World, t).pc = "awaitFetch"
  /\ \E s \in ConcStatuses :
       /\ (Depth(World, t) = MaxDepth /\ mayRetry(Top(World, t)) /\ ~Foldable(World, t)) => s \notin {401, 403}
       /\ Set(SetTop(World, t, [Top(World, t) EXCEPT !.pc = "awaitJson", !.status = s]))

LiveJsonAnswers(t) ==
  /\ calls[t].status = "running"
  /\ Top(World, t).pc = "awaitJson"
  /\ LET f == Top(World, t)
     IN \E b \in (IF f.op = "domain" THEN ConcDomainBodies ELSE ConcTokenBodies) :
          Set(Fold(onResponse(World, t, HttpResponse(f.status, TRUE, b), "returns"), t))

NextLive ==
  \/ \E t \in Sequential : DomainCall(t)
  \/ \E t \in Sequential : GetAccessTokenCall(t)
  \/ \E t \in Sequential : RefreshAccessTokenCall(t)
  \/ \E t \in Sequential : ConcInitializerAnswers(t)
  \/ \E t \in Sequential : LiveFetchAnswers(t)
  \/ \E t \in Sequential : LiveJsonAnswers(t)

\* the await a running call is suspended at settles: the initializer's
\* promise, the fetch promise or the response.json() promise
LiveAnswers(t) == ConcInitializerAnswers(t) \/ LiveFetchAnswers(t) \/ LiveJsonAnswers(t)

\* every pending await is answered eventually
FairLive == \A t \in Sequential : WF_vars(LiveAnswers(t))

SpecLive == Init /\ [][NextLive]_vars /\ FairLive

\* ---- properties ------------------------------------------------------------
Settled(c) == c.status \in {"resolved", "rejected"}
TokenOps == {"exchange", "refresh"}
\* the answer is a 401 or 403 whose body parsed to an object: handleNotOk raises ApiAuthError
AuthAnswer(a) == a.kind = "http" /\ a.status \in {401, 403} /\ a.json /\ a.id # "null"
\* the answer is a 2xx whose body parsed
OkAnswer(a) == a.kind = "http" /\ a.status >= 200 /\ a.status < 300 /\ a.json
\* the answer is an error status other than 401/403 whose body parsed
OtherErrorAnswer(a) == a.kind = "http" /\ a.status >= 300 /\ a.status \notin {401, 403} /\ a.json
\* the token request of the method observed by lastOp was answered 2xx with a parsed body
TokenSuccess(op) == op.op \in TokenOps /\ op.resp.kind = "http" /\ op.resp.status >= 200 /\ op.resp.status < 300 /\ op.resp.json

\* C1: a domain request whose first dispatch is answered 401/403 and whose
\* second dispatch is answered 2xx has called refreshAccessToken exactly once,
\* was dispatched exactly twice and resolves to the parsed body of the second
\* response.
C1_OneRefreshOneRetry ==
  \A t \in Tasks :
    LET c == calls[t]
    IN (c.op = "domain" /\ Settled(c) /\ Len(c.answers) = 2 /\ AuthAnswer(c.answers[1]) /\ OkAnswer(c.answers[2]))
       => /\ c.nRefresh = 1
          /\ c.nDispatch = 2
          /\ c.status = "resolved"
          /\ c.value.id = c.answers[2].id

\* C2: a domain request whose first dispatch and whose retry are both answered
\* 401/403 rejects with the authentication error after the first retry: it was
\* dispatched twice and never a third time, its doFetch started one refresh and
\* no second one, and no refresh at all was started after the retry went out.
C2_NoSecondRetry ==
  \A t \in Tasks :
    LET c == calls[t]
    IN (c.op = "domain" /\ Len(c.answers) >= 2 /\ AuthAnswer(c.answers[1]) /\ AuthAnswer(c.answers[2]))
       => /\ c.status = "rejected"
          /\ c.error = "ApiAuthError"
          /\ Len(c.answers) = 2
          /\ c.nDispatch = 2
          /\ c.nOwnRefresh = 1
          /\ c.nRefresh = c.refreshAtRetry

C2_Witness ==
  \E t \in Tasks :
    LET c == calls[t]
    IN /\ c.op = "domain" /\ c.status = "rejected" /\ c.error = "ApiAuthError"
       /\ Len(c.answers) = 2 /\ c.answers[1].status = 401 /\ c.answers[2].status = 403
       /\ c.nDispatch = 2

\* C3: for every original domain request at most one invocation of
\* refreshAccessToken occurs, whatever the endpoints answer.
C3_AtMostOneRefresh ==
  \A t \in Tasks : calls[t].op = "domain" => calls[t].nRefresh <= 1

\* C4 (as stated): with an initializer and only domain calls so far, whatever
\* credential object the initializer returned, it has been invoked exactly once.
C4_InitializerOnce ==
  (credentialInitializer /\ hist.onlyDomain /\ hist.nOps >= 1 /\ hist.firstInit.result \in {"pending", "token", "notoken"})
    => hist.initCount = 1

\* C4 (amended): with an initializer and only domain calls so far, the
\* initializer was first invoked during the first call and before any HTTP
\* dispatch, and if the object it returned carries a non-empty access_token it
\* has been invoked exactly once, whatever calls, retries and refreshes followed.
C4_InitializerOnceIfToken ==
  (credentialInitializer /\ hist.onlyDomain /\ hist.nOps >= 1)
    => /\ hist.initCount >= 1
       /\ hist.firstInit.op = 1
       /\ ~hist.firstInit.http
       /\ hist.firstInit.result \in {"pending", "token"} => hist.initCount = 1

C4_Witness ==
  /\ credentialInitializer /\ hist.onlyDomain /\ hist.nOps = 2
  /\ hist.firstInit.result = "token" /\ hist.initCount = 1
  /\ \E t \in Tasks : calls[t].op = "domain" /\ calls[t].nRefresh >= 1 /\ Settled(calls[t])

\* C5: a getAccessToken or refreshAccessToken whose token request is answered
\* 2xx has, when it returns, emitted 'token' exactly once, with the full
\* response body as payload.
C5_EmitOnceOnSuccess ==
  TokenSuccess(hist.lastOp)
    => /\ hist.lastOp.emits = 1
       /\ hist.lastOp.payload = hist.lastOp.resp.body
       /\ \A t \in Tasks : calls[t].status # "rejected"

C5_Witness ==
  /\ TokenSuccess(hist.lastOp) /\ hist.lastOp.op = "exchange"
  /\ hist.lastOp.emits = 1 /\ hist.lastOp.payload.access_token \in Tokens
  /\ hist.lastOp.ret = hist.lastOp.payload

\* C6: when getAccessToken or refreshAccessToken succeeds with a body carrying
\* access_token and/or refresh_token, then on return the held tokens equal the
\* returned values for every field present (read here as: present with a
\* non-empty value), whatever the subscribers do.
C6_TokensStored ==
  LET op == hist.lastOp
      b == op.resp.body
  IN (TokenSuccess(op) /\ b.kind = "object")
       => /\ b.access_token \in Tokens => op.access_token = b.access_token
          /\ b.refresh_token \in Tokens => op.refresh_token = b.refresh_token

\* C7 (as stated): setCredentials overwrites the held value with every field
\* present in the argument and leaves a field absent from it untouched.
C7_PresentOverwrites ==
  LET s == hist.lastSet
  IN (s.called /\ s.creds.kind = "object")
       => /\ access_token = IF s.creds.access_token # Absent THEN s.creds.access_token ELSE s.access_token
          /\ refresh_token = IF s.creds.refresh_token # Absent THEN s.creds.refresh_token ELSE s.refresh_token

\* C7 (amended): setCredentials overwrites the held value with every field
\* that is present and non-empty, and leaves the held value untouched for a
\* field that is absent or empty (and for a null argument).
C7_PartialUpdate ==
  LET s == hist.lastSet
  IN s.called
       => /\ access_token = IF s.creds.access_token \in Tokens THEN s.creds.access_token ELSE s.access_token
          /\ refresh_token = IF s.creds.refresh_token \in Tokens THEN s.creds.refresh_token ELSE s.refresh_token

C7_Witness ==
  LET s == hist.lastSet
  IN /\ s.called /\ s.creds.access_token = Absent /\ s.creds.refresh_token \in Tokens
     /\ s.access_token \in Tokens /\ access_token = s.access_token
     /\ s.refresh_token \in Tokens /\ refresh_token # s.refresh_token

\* C8: getAccessToken and refreshAccessToken never reject; when the token
\* request fails with an error the method resolves to undefined.
C8_NeverRejects ==
  /\ \A t \in Tasks : calls[t].op \in TokenOps => calls[t].status # "rejected"
  /\ hist.lastOp.op \in TokenOps
       => /\ ~hist.lastOp.rejected
          /\ hist.lastOp.threw => hist.lastOp.ret = Undefined
          /\ \E t \in Tasks : calls[t].status = "resolved" /\ calls[t].value = hist.lastOp.ret

C8_Witness ==
  /\ hist.lastOp.op = "refresh" /\ hist.lastOp.threw /\ hist.lastOp.err = "ApiAuthError"
  /\ \E t \in Tasks : calls[t].status = "resolved" /\ calls[t].value = Undefined /\ calls[t].nRefresh >= 1

\* C9: an exchange or refresh that did not succeed (token endpoint answered a
\* non-2xx status, or the request failed) emits no 'token' notification.
C9_NoEmitOnFailure ==
  (hist.lastOp.op \in TokenOps /\ ~TokenSuccess(hist.lastOp)) => hist.lastOp.emits = 0

\* C10: a domain request answered with an error status other than 401/403 and
\* a body that parses resolves to that body; the answer starts no token refresh
\* and no retry.
C10_OtherErrorsReturned ==
  \A t \in Tasks :
    LET c == calls[t]
        n == Len(c.answers)
    IN (c.op = "domain" /\ n >= 1 /\ OtherErrorAnswer(c.answers[n]))
       => /\ c.status = "resolved"
          /\ c.value.id = c.answers[n].id
          /\ c.nDispatch = n
          /\ n = 1 => c.nRefresh = 0
          /\ n = 2 => c.nRefresh = c.refreshAtRetry /\ c.nOwnRefresh = 1

C10_Witness ==
  \E t \in Tasks :
    LET c == calls[t]
    IN /\ c.op = "domain" /\ c.status = "resolved" /\ Len(c.answers) = 1
       /\ c.answers[1].status = 500 /\ c.answers[1].json /\ c.value.id = "d2"
       /\ c.nRefresh = 0 /\ c.nDispatch = 1

\* the answer is a network failure or a body that does not parse
FailedAnswer(a) == a.kind = "neterr" \/ (a.kind = "http" /\ ~a.json)

\* C11: a domain request whose dispatch fails with an error that is not an
\* authentication error (network failure, JSON parse failure) rejects with that
\* same error; the failure starts no token refresh and no retry, on the first
\* attempt as well as on the retry.
C11_OtherErrorsRethrown ==
  \A t \in Tasks :
    LET c == calls[t]
        n == Len(c.answers)
    IN (c.op = "domain" /\ n >= 1 /\ FailedAnswer(c.answers[n]))
       => /\ c.status = "rejected"
          /\ c.error = IF c.answers[n].kind = "neterr" THEN "FetchError" ELSE "ParseError"
          /\ c.nDispatch = n
          /\ n = 1 => c.nRefresh = 0
          /\ n = 2 => c.nRefresh = c.refreshAtRetry /\ c.nOwnRefresh = 1

C11_Witness ==
  \E t \in Tasks :
    LET c == calls[t]
    IN /\ c.op = "domain" /\ c.status = "rejected" /\ c.error = "ParseError"
       /\ Len(c.answers) = 2 /\ c.answers[2].status = 200 /\ ~c.answers[2].json
       /\ c.nDispatch = 2

\* C12: the retry counter belongs to one call. Whatever calls came before,
\* including a domain call that used up its retry and rejected with the
\* authentication error, a domain call starts with the counter at 0, the counter
\* counts the refreshes its own doFetch has awaited, and a first answer of
\* 401/403 gets it exactly one refresh.
C12_FreshCounter ==
  \A t \in Tasks :
    LET c == calls[t]
    IN c.op = "domain"
       => /\ c.status = "running"
             => c.stack[1].retries = IF c.stack[1].pc = "awaitRefresh" THEN c.nOwnRefresh - 1 ELSE c.nOwnRefresh
          /\ Len(c.answers) = 0 => c.nOwnRefresh = 0
          /\ (Len(c.answers) >= 1 /\ AuthAnswer(c.answers[1])) => c.nOwnRefresh = 1
          /\ (Len(c.answers) >= 1 /\ ~AuthAnswer(c.answers[1])) => c.nOwnRefresh = 0

\* the call before this one used up its retry and rejected; this one has just
\* been started and dispatched with its counter at 0
C12_Witness ==
  \E t \in Tasks :
    LET c == calls[t]
    IN /\ hist.afterUsedUp
       /\ c.op = "domain" /\ c.status = "running" /\ Len(c.stack) = 1
       /\ c.stack[1].retries = 0 /\ c.stack[1].pc = "awaitFetch"
       /\ c.nDispatch = 1 /\ c.nOwnRefresh = 0

\* C13: a request sent without a headers option carries Authorization: Bearer
\* <token> with the access token held at dispatch, and carries no Authorization
\* header when none is held; a request sent with explicit headers (the token
\* endpoint requests) carries no Authorization header, on the first attempt and
\* on the retry.  A caller that awaits each call leaves the tokens alone while a
\* request is in flight, so the token held at dispatch is the one held until
\* the request is answered.
C13_HeaderAssembly ==
  \A t \in Tasks :
    LET c == calls[t]
        f == c.stack[Len(c.stack)]
    IN (c.status = "running" /\ f.pc \in {"awaitFetch", "awaitJson"})
       => /\ f.headers => f.Authorization = NoHeader
          /\ f.op \in TokenOps => f.headers
          /\ (~f.headers /\ Truthy(access_token)) => f.Authorization = access_token
          /\ (~f.headers /\ ~Truthy(access_token)) => f.Authorization = NoHeader

C13_Witness ==
  \E t \in Tasks :
    LET c == calls[t]
    IN /\ c.status = "running" /\ Len(c.stack) = 2
       /\ c.stack[1].op = "domain" /\ c.stack[1].Authorization \in Tokens
       /\ c.stack[2].op = "refresh" /\ c.stack[2].retries = 1 /\ c.stack[2].pc = "awaitFetch"
       /\ c.stack[2].Authorization = NoHeader
       /\ Truthy(access_token)

\* call t invokes the credential initializer in this step: its top frame newly
\* waits for the initializer
InvokesInitializer(t) ==
  /\ calls'[t].status = "running"
  /\ calls'[t].stack[Len(calls'[t].stack)].pc = "awaitInit"
  /\ ~(/\ calls[t].status = "running"
       /\ Len(calls[t].stack) = Len(calls'[t].stack)
       /\ calls[t].stack[Len(calls[t].stack)].pc = "awaitInit")

\* C19: held tokens are never cleared: no step takes access_token or
\* refresh_token from a non-empty value back to null or the empty string, and the
\* credential initializer is never invoked while an access token is held.
C19_NeverCleared ==
  [][/\ Truthy(access_token) => Truthy(access_token')
     /\ Truthy(refresh_token) => Truthy(refresh_token')
     /\ \A t \in Tasks : InvokesInitializer(t) => (~Truthy(access_token) /\ ~Truthy(access_token'))]_vars

C19_Witness ==
  /\ credentialInitializer /\ hist.initCount = 0
  /\ hist.lastOp.op = "refresh" /\ TokenSuccess(hist.lastOp)
  /\ hist.lastOp.resp.body.kind = "object"
  /\ hist.lastOp.resp.body.access_token = Empty /\ hist.lastOp.resp.body.refresh_token = Empty
  /\ hist.lastOp.listener = "returns"
  /\ Truthy(access_token) /\ Truthy(refresh_token)

\* C16: when the refresh awaited by a domain request after a 401/403 is answered
\* 2xx with an access token, the request is dispatched a second time in the step
\* that completes the refresh, not before, and the Authorization header of that
\* second dispatch carries the access token the refresh response issued.
C16_RetryUsesNewToken ==
  \A t \in Tasks :
    LET c == calls[t]
        lr == hist.lastRefresh
    IN /\ (c.op = "domain" /\ c.status = "running" /\ c.stack[1].pc = "awaitRefresh") => c.nDispatch = 1
       /\ (lr.done /\ lr.task = t /\ lr.ok /\ lr.issued \in Tokens)
          => /\ c.status = "running" /\ Len(c.stack) = 1
             /\ c.stack[1].pc = "awaitFetch"
             /\ c.nDispatch = 2
             /\ c.stack[1].Authorization = lr.issued

\* C17: when the refresh awaited by a domain request after a 401/403 fails (the
\* token request throws and the error is swallowed, or the token endpoint
\* answers an error status that is not 401/403), the held tokens are those held
\* when the refresh was started, the request is dispatched a second time with
\* the old access token, and the call settles on the answer to that second
\* dispatch.  Connectors whose initializer has run are left out.
C17_FailedRefreshStillRetries ==
  \A t \in Tasks :
    LET c == calls[t]
        lr == hist.lastRefresh
    IN hist.initCount = 0
       => /\ (lr.done /\ lr.task = t /\ ~lr.ok)
             => /\ access_token = lr.held.access_token
                /\ refresh_token = lr.held.refresh_token
                /\ c.status = "running" /\ Len(c.stack) = 1
                /\ c.stack[1].pc = "awaitFetch"
                /\ c.nDispatch = 2
                /\ c.stack[1].Authorization = IF Truthy(lr.held.access_token) THEN lr.held.access_token ELSE NoHeader
          /\ (c.op = "domain" /\ Settled(c) /\ Len(c.answers) >= 1 /\ AuthAnswer(c.answers[1]))
             => Len(c.answers) = 2 /\ c.nDispatch = 2

\* call t waits for the initializer it invoked on entry, before any dispatch
Bootstrapping(c) ==
  /\ c.status = "running" /\ c.op = "domain" /\ Len(c.stack) = 1
  /\ c.stack[1].pc = "awaitInit" /\ c.nDispatch = 0

\* C14: the lazy bootstrap is not single-flight. On a connector with an
\* initializer and no access token, a domain call started while another call
\* still waits for the initializer invokes the initializer itself: after the
\* step both calls wait for their own invocation and the initializer has been
\* invoked at least twice.
C14_BootstrapNotSingleFlight ==
  [][\A t \in Tasks : \A u \in Tasks \ {t} :
       (/\ credentialInitializer /\ ~Truthy(access_token)
        /\ Bootstrapping(calls[t])
        /\ calls[u].status # "running" /\ calls'[u].status = "running" /\ calls'[u].op = "domain")
       => /\ Bootstrapping(calls'[t])
          /\ Bootstrapping(calls'[u])
          /\ hist'.initCount >= 2]_vars

C14_Witness ==
  /\ credentialInitializer /\ ~Truthy(access_token)
  /\ \A t \in Tasks : Bootstrapping(calls[t])
  /\ hist.initCount = 2 /\ hist.nOps = 2

\* the domain call's first dispatch was answered 401/403
FirstAnswerAuth(c) == c.op = "domain" /\ Len(c.answers) >= 1 /\ AuthAnswer(c.answers[1])

\* call t starts the refresh its doFetch awaits at line 284
StartsOwnRefresh(t) ==
  /\ calls[t].status = "running" /\ calls[t].op = "domain" /\ Len(calls[t].stack) = 1
  /\ calls'[t].status = "running" /\ Len(calls'[t].stack) = 2

\* C15: refreshes are not coordinated between overlapping domain requests.
\* Each request answered 401/403 starts a refresh of its own, exactly one, whose
\* request carries the refresh token held in the step that handles its
\* authentication error; from the moment a refresh response is stored, and so
\* once both requests have settled, the held tokens are the ones carried by the
\* refresh response that was processed last, whichever request it belongs to.
C15_UncoordinatedRefreshes ==
  [][/\ \A t \in Tasks :
          StartsOwnRefresh(t)
          => /\ calls'[t].stack[2].op = "refresh"
             /\ calls'[t].stack[2].rt = refresh_token
             /\ calls'[t].nOwnRefresh = calls[t].nOwnRefresh + 1
     /\ \A t \in Tasks : FirstAnswerAuth(calls'[t]) => calls'[t].nOwnRefresh = 1
     /\ hist'.lastToken.set
        => /\ Truthy(hist'.lastToken.access_token) => access_token' = hist'.lastToken.access_token
           /\ Truthy(hist'.lastToken.refresh_token) => refresh_token' = hist'.lastToken.refresh_token]_vars

\* both requests were in flight together: the first waits for the answer to its
\* retry, sent with the token of its own refresh, when the second one's refresh
\* response is stored over it
C15_Witness ==
  /\ ~credentialInitializer
  /\ \A t \in Tasks : calls[t].status = "running" /\ FirstAnswerAuth(calls[t]) /\ calls[t].nOwnRefresh = 1 /\ calls[t].nRefresh = 1
  /\ \A t \in Tasks : Len(calls[t].stack) = 1 /\ calls[t].stack[1].pc = "awaitFetch" /\ calls[t].nDispatch = 2
  /\ calls[1].stack[1].Authorization = "t1"
  /\ hist.lastRefresh.task = 2 /\ hist.lastRefresh.issued = "t2"
  /\ hist.lastToken.set /\ hist.lastToken.task = 2
  /\ access_token = "t2" /\ refresh_token = "t1"

\* C18: every call terminates. Provided every HTTP request and every invocation
\* of the initializer is answered, a domain call, a getAccessToken call and a
\* refreshAccessToken call that is running eventually resolves or rejects,
\* whatever statuses the answers carry.
C18_EveryCallTerminates ==
  \A t \in Sequential : (calls[t].status = "running") ~> Settled(calls[t])

====
